---------------------------- MODULE Spec2Model ----------------------------
(***************************************************************************)
(* A model of the command-line chat agent: the Agent loop (main.py), its   *)
(* tool dispatch, and the three file tools (read_file, list_files,         *)
(* edit_file) acting on a small filesystem.                                *)
(*                                                                         *)
(* Texts (file contents, result texts, error messages) are sequences of    *)
(* one-character or phrase strings; "" is <<>>.  A path is the sequence of *)
(* its "/"-separated components; the empty path "" is <<>>.                *)
(***************************************************************************)
EXTENDS Naturals, Sequences, FiniteSets, TLC

VARIABLES
    conversation,   \* Agent.run: the local list `conversation`
    pc,             \* position of Agent.run: "await" | "infer" | "blocks" | "done"
    reply,          \* response.content of the inference call being processed
    idx,            \* index of the next content block of reply to process
    tool_results,   \* Agent.run: the local list `tool_results`
    nextId,         \* number of tool_use ids the remote model has issued so far
    fs,             \* the filesystem the tools act on
    ev              \* history: what the last step did

vars == <<conversation, pc, reply, idx, tool_results, nextId, fs, ev>>

---------------------------------------------------------------------------
(* Bounds of the model *)

\* longest file content the model keeps (longer writes are not explored)
MaxContent == 2
\* most messages of the Conversation at which user input or a model reply is
\* still explored
MaxConv == 4
\* most content blocks the remote model emits in one run
MaxBlocks == 2

---------------------------------------------------------------------------
(* Texts *)

\* the texts drawn as old_str and new_str
Strings == {<<>>, <<"x">>, <<"y">>, <<"x", "x">>}

StartsWith(s, p) == Len(p) <= Len(s) /\ SubSeq(s, 1, Len(p)) = p

IsPrefix(s, t) == Len(s) <= Len(t) /\ SubSeq(t, 1, Len(s)) = s

\* str.replace(old, new): every non-overlapping occurrence, left to right;
\* with old = "" the new text is inserted before every character and at the end.
RECURSIVE str_replace(_, _, _)
str_replace(s, old, new) ==
    IF old = <<>>
    THEN IF s = <<>> THEN new
         ELSE new \o <<Head(s)>> \o str_replace(Tail(s), old, new)
    ELSE IF s = <<>> THEN <<>>
         ELSE IF StartsWith(s, old)
              THEN new \o str_replace(SubSeq(s, Len(old) + 1, Len(s)), old, new)
              ELSE <<Head(s)>> \o str_replace(Tail(s), old, new)

---------------------------------------------------------------------------
(* The filesystem: os.path.exists, os.path.isdir, os.path.dirname,         *)
(* os.makedirs, open(..., 'r'), open(..., 'w'), os.listdir                 *)

\* the paths the tools are called with: "", ".", "a", "d", "d/a", "./a"
\* (every prefix of a path of the set resolves to a node of NodePaths)
Paths == {<<>>, <<".">>, <<"a">>, <<"d">>, <<"d", "a">>, <<".", "a">>}

\* a path with its "." components removed: the node it names below the
\* working directory (<<>> is the working directory itself)
RECURSIVE Resolve(_)
Resolve(p) ==
    IF p = <<>> THEN <<>>
    ELSE IF Head(p) = "." THEN Resolve(Tail(p))
         ELSE <<Head(p)>> \o Resolve(Tail(p))

NodePaths == {Resolve(p) : p \in Paths} \ {<<>>}

Absent == [kind |-> "absent", content |-> <<>>]
Dir == [kind |-> "dir", content |-> <<>>]
\* a directory the process may not enumerate
LockedDir == [kind |-> "lockeddir", content |-> <<>>]
File(c) == [kind |-> "file", content |-> c]
\* a file the process may read and not write
ReadOnlyFile(c) == [kind |-> "rofile", content |-> c]

IsDirKind(k) == k \in {"dir", "lockeddir"}
IsFileKind(k) == k \in {"file", "rofile"}

\* the node at a resolved path; the working directory is always a directory
NodeAt(f, n) ==
    IF n = <<>> THEN Dir
    ELSE IF n \in DOMAIN f THEN f[n] ELSE Absent

Parent(n) == SubSeq(n, 1, Len(n) - 1)

\* a node exists only below an existing directory
WellFormed(f) ==
    \A n \in DOMAIN f :
        f[n].kind # "absent" => IsDirKind(NodeAt(f, Parent(n)).kind)

\* the join of a path's components with "/" (the path as text)
RECURSIVE PathText(_)
PathText(p) ==
    IF p = <<>> THEN <<>>
    ELSE IF Len(p) = 1 THEN p
         ELSE <<Head(p), "/">> \o PathText(Tail(p))

\* os.path.exists: false for "" and below anything that is not a directory
os_path_exists(f, p) ==
    /\ p # <<>>
    /\ NodeAt(f, Resolve(p)).kind # "absent"
    /\ \A i \in 1..(Len(p) - 1) :
           IsDirKind(NodeAt(f, Resolve(SubSeq(p, 1, i))).kind)

os_path_isdir(f, p) ==
    os_path_exists(f, p) /\ IsDirKind(NodeAt(f, Resolve(p)).kind)

os_path_dirname(p) == IF p = <<>> THEN <<>> ELSE SubSeq(p, 1, Len(p) - 1)

\* The outcome of a filesystem call: raised (with the exception's text) or
\* returned (with the text read, and the filesystem after the call).
Raised(msg, f) == [raised |-> TRUE, msg |-> msg, val |-> <<>>, fs |-> f]
Returned(val, f) == [raised |-> FALSE, msg |-> <<>>, val |-> val, fs |-> f]

\* os.makedirs(p, exist_ok=True): creates every missing directory of p,
\* raises when a component is a regular file
RECURSIVE makedirs_from(_, _, _)
makedirs_from(f, p, i) ==
    IF i > Len(p) THEN Returned(<<>>, f)
    ELSE LET n == Resolve(SubSeq(p, 1, i))
             k == NodeAt(f, n).kind
         IN  IF IsDirKind(k) THEN makedirs_from(f, p, i + 1)
             ELSE IF IsFileKind(k)
                  THEN Raised(<<"[Errno 17] File exists: ">> \o PathText(SubSeq(p, 1, i)), f)
                  ELSE makedirs_from([f EXCEPT ![n] = Dir], p, i + 1)

os_makedirs(f, p) == makedirs_from(f, p, 1)

\* open(p, 'r').read()
open_read(f, p) ==
    LET k == NodeAt(f, Resolve(p)).kind
    IN  IF ~os_path_exists(f, p)
        THEN Raised(<<"[Errno 2] No such file or directory: ">> \o PathText(p), f)
        ELSE IF IsDirKind(k)
             THEN Raised(<<"[Errno 21] Is a directory: ">> \o PathText(p), f)
             ELSE Returned(NodeAt(f, Resolve(p)).content, f)

\* open(p, 'w').write(content): creates or truncates the file
open_write(f, p, content) ==
    LET n == Resolve(p)
        k == NodeAt(f, n).kind
    IN  IF p = <<>>
        THEN Raised(<<"[Errno 2] No such file or directory: ">>, f)
        ELSE IF IsDirKind(k) /\ os_path_exists(f, p)
        THEN Raised(<<"[Errno 21] Is a directory: ">> \o PathText(p), f)
        ELSE IF ~(os_path_dirname(p) = <<>> \/ os_path_isdir(f, os_path_dirname(p)))
        THEN Raised(<<"[Errno 20] Not a directory: ">> \o PathText(p), f)
        ELSE IF k = "rofile"
        THEN Raised(<<"[Errno 13] Permission denied: ">> \o PathText(p), f)
        ELSE Returned(<<>>, [f EXCEPT ![n] = File(content)])

\* os.listdir: the names of the children of a directory
os_listdir(f, p) ==
    IF NodeAt(f, Resolve(p)).kind = "lockeddir"
    THEN Raised(<<"[Errno 13] Permission denied: ">> \o PathText(p), f)
    ELSE Returned({n[Len(n)] : n \in {m \in DOMAIN f :
                      Parent(m) = Resolve(p) /\ f[m].kind # "absent"}}, f)

---------------------------------------------------------------------------
(* Tool inputs: a decoded object (dict), JSON text (str), the UTF-8 bytes  *)
(* of JSON text (bytes), or a value of another type.  JSON text is a       *)
(* sequence of tokens; bytes are the same tokens in their encoded form.    *)

Keys == {"path", "old_str", "new_str"}
KeyOrder == <<"path", "old_str", "new_str">>

EmptyDict == [k \in {} |-> <<>>]

Tok(tk, val) == [tk |-> tk, val |-> val, enc |-> "str"]
LBrace == Tok("{", <<>>)
RBrace == Tok("}", <<>>)
KeyTok(k) == Tok("key", <<k>>)
StrTok(v) == Tok("string", v)
\* a byte that is not valid UTF-8
BadByte == [tk |-> "0xff", val |-> <<>>, enc |-> "utf-8"]

\* json.dumps of a flat object of string fields (what a caller sends)
RECURSIVE DumpPairs(_, _)
DumpPairs(d, i) ==
    IF i > Len(KeyOrder) THEN <<>>
    ELSE (IF KeyOrder[i] \in DOMAIN d
          THEN <<KeyTok(KeyOrder[i]), StrTok(d[KeyOrder[i]])>>
          ELSE <<>>) \o DumpPairs(d, i + 1)

json_dumps(d) == <<LBrace>> \o DumpPairs(d, 1) \o <<RBrace>>

\* str.encode('utf-8') and bytes.decode('utf-8')
utf8_encode(text) == [i \in DOMAIN text |-> [text[i] EXCEPT !.enc = "utf-8"]]

bytes_decode(b) ==
    IF \E i \in DOMAIN b : b[i].tk = "0xff"
    THEN Raised(<<"'utf-8' codec can't decode byte 0xff">>, <<>>)
    ELSE Returned([i \in DOMAIN b |-> [b[i] EXCEPT !.enc = "str"]], <<>>)

\* The result of json.loads: a JSONDecodeError, or the decoded value, which
\* is an object (isDict) or some other JSON value.
JsonError == [ok |-> FALSE, isDict |-> FALSE, d |-> EmptyDict]
JsonValue(isDict, d) == [ok |-> TRUE, isDict |-> isDict, d |-> d]

RECURSIVE ParsePairs(_, _)
ParsePairs(toks, acc) ==
    IF toks = <<>> THEN JsonValue(TRUE, acc)
    ELSE IF Len(toks) >= 2 /\ toks[1].tk = "key" /\ toks[2].tk = "string"
         THEN LET k == toks[1].val[1]
              IN  ParsePairs(SubSeq(toks, 3, Len(toks)),
                             [x \in (DOMAIN acc) \cup {k} |->
                                 IF x = k THEN toks[2].val ELSE acc[x]])
         ELSE JsonError

json_loads(text) ==
    IF Len(text) = 1 /\ text[1].tk = "string" THEN JsonValue(FALSE, EmptyDict)
    ELSE IF Len(text) >= 2 /\ text[1] = LBrace /\ text[Len(text)] = RBrace
         THEN ParsePairs(SubSeq(text, 2, Len(text) - 1), EmptyDict)
         ELSE JsonError

DictInput(d) == [type |-> "dict", dict |-> d, data |-> <<>>]
StrInput(text) == [type |-> "str", dict |-> EmptyDict, data |-> text]
BytesInput(b) == [type |-> "bytes", dict |-> EmptyDict, data |-> b]
\* an input that is neither str, dict nor bytes (None)
OtherInput == [type |-> "NoneType", dict |-> EmptyDict, data |-> <<>>]

\* The (result text, error) pair a handler returns, with the filesystem it
\* leaves; err is None or Exception(msg).
None == [isNone |-> TRUE, msg |-> <<>>]
Exception(msg) == [isNone |-> FALSE, msg |-> msg]
Out(res, err, f) == [res |-> res, err |-> err, fs |-> f]

\* The first lines of every handler: the isinstance chain that decodes the
\* input.  status: "ok" (val is the decoded value), "unknown" (the else
\* branch), "json" (json.loads raised JSONDecodeError), "raised" (decode
\* raised another exception).
Decoded(status, val, msg) == [status |-> status, val |-> val, msg |-> msg]

ParseText(text) ==
    LET v == json_loads(text)
    IN  IF v.ok THEN Decoded("ok", v, <<>>)
        ELSE Decoded("json", JsonError, <<"Invalid JSON input: ">>)

\* parse_input without the bytes branch: bytes fall to the else branch
parse_input_no_bytes(input) ==
    IF input.type = "str" THEN ParseText(input.data)
    ELSE IF input.type = "dict"
    THEN Decoded("ok", JsonValue(TRUE, input.dict), <<>>)
    ELSE Decoded("unknown", JsonError, <<"Unknown input format: ", input.type>>)

parse_input(input) ==
    IF input.type = "str" THEN ParseText(input.data)
    ELSE IF input.type = "dict"
    THEN Decoded("ok", JsonValue(TRUE, input.dict), <<>>)
    ELSE IF input.type = "bytes"
    THEN LET t == bytes_decode(input.data)
         IN  IF t.raised THEN Decoded("raised", JsonError, t.msg)
             ELSE ParseText(t.val)
    ELSE Decoded("unknown", JsonError, <<"Unknown input format: ", input.type>>)

\* dict.get(key, default)
dict_get(d, k, default) == IF k \in DOMAIN d THEN d[k] ELSE default

---------------------------------------------------------------------------
(* read_file *)

\* read_file without the existence check of lines 59-60: a missing path
\* gets the error of open()
read_file_no_exists_check(f, input) ==
    LET dec == parse_input(input)
    IN  IF dec.status # "ok" THEN Out(<<>>, Exception(dec.msg), f)
        ELSE IF ~dec.val.isDict \/ "path" \notin DOMAIN dec.val.d
        THEN Out(<<>>, Exception(<<"No 'path' field in input">>), f)
        ELSE LET r == open_read(f, dec.val.d["path"])
             IN  IF r.raised THEN Out(<<>>, Exception(r.msg), f)
                 ELSE Out(r.val, None, f)

read_file(f, input) ==
    LET dec == parse_input(input)
    IN  IF dec.status # "ok" THEN Out(<<>>, Exception(dec.msg), f)
        ELSE IF ~dec.val.isDict \/ "path" \notin DOMAIN dec.val.d
        THEN Out(<<>>, Exception(<<"No 'path' field in input">>), f)
        ELSE LET file_path == dec.val.d["path"]
             IN  IF ~os_path_exists(f, file_path)
                 THEN Out(<<>>, Exception(<<"File not found: ">> \o PathText(file_path)), f)
                 ELSE LET r == open_read(f, file_path)
                      IN  IF r.raised THEN Out(<<>>, Exception(r.msg), f)
                          ELSE Out(r.val, None, f)

---------------------------------------------------------------------------
(* list_files *)

\* code points of the characters of file names and of the "/" marker
CharCode(c) ==
    CASE c = "." -> 46
      [] c = "/" -> 47
      [] c = "a" -> 97
      [] c = "d" -> 100

\* Python's str ordering: lexicographic by code point
RECURSIVE LexLess(_, _)
LexLess(a, b) ==
    IF b = <<>> THEN FALSE
    ELSE IF a = <<>> THEN TRUE
    ELSE IF Head(a) # Head(b) THEN CharCode(Head(a)) < CharCode(Head(b))
    ELSE LexLess(Tail(a), Tail(b))

\* list.sort() of a list without duplicates
RECURSIVE SortedSeq(_)
SortedSeq(S) ==
    IF S = {} THEN <<>>
    ELSE LET m == CHOOSE x \in S : \A y \in S : x = y \/ LexLess(x, y)
         IN  <<m>> \o SortedSeq(S \ {m})

\* the characters of a file name
NameChars(item) ==
    CASE item = "a.d" -> <<"a", ".", "d">>
      [] OTHER -> <<item>>

\* MarkedName without the isdir test: no name gets the "/" marker
MarkedName_unmarked(f, dir_path, item) == NameChars(item)

\* the loop over os.listdir: item + "/" for a directory, item otherwise
MarkedName(f, dir_path, item) ==
    IF os_path_isdir(f, dir_path \o <<item>>)
    THEN NameChars(item) \o <<"/">>
    ELSE NameChars(item)

RECURSIVE JoinNames(_)
JoinNames(names) ==
    IF names = <<>> THEN <<>>
    ELSE IF Len(names) = 1 THEN Head(names)
         ELSE Head(names) \o <<", ">> \o JoinNames(Tail(names))

\* json.dumps({"files": files, "directory": dir_path, "count": len(files)})
ListingText(files, dir_path) ==
    <<"{files: [">> \o JoinNames(files) \o <<"], directory: ">> \o PathText(dir_path)
        \o <<", count: ", ToString(Len(files)), "}">>

list_files(f, input) ==
    LET dec == parse_input(input)
    IN  IF dec.status # "ok" THEN Out(<<>>, Exception(dec.msg), f)
        ELSE IF ~dec.val.isDict
        THEN Out(<<>>, Exception(<<"'str' object has no attribute 'get'">>), f)
        ELSE LET dir_path == dict_get(dec.val.d, "path", <<".">>)
             IN  IF ~os_path_exists(f, dir_path)
                 THEN Out(<<>>, Exception(<<"Directory not found: ">> \o PathText(dir_path)), f)
                 ELSE IF ~os_path_isdir(f, dir_path)
                 THEN Out(<<>>, Exception(<<"Path is not a directory: ">> \o PathText(dir_path)), f)
                 ELSE LET l == os_listdir(f, dir_path)
                      IN  IF l.raised
                          THEN Out(<<>>, Exception(<<"Permission denied accessing directory: ">>
                                                       \o PathText(dir_path)), f)
                          ELSE LET files == SortedSeq({MarkedName(f, dir_path, item) :
                                                           item \in l.val})
                               IN  Out(ListingText(files, dir_path), None, f)

---------------------------------------------------------------------------
(* edit_file *)

\* create_new_file without os.makedirs: the parent directory is not created
create_new_file_no_makedirs(f, file_path, content) ==
    LET w == open_write(f, file_path, content)
    IN  IF w.raised
        THEN [res |-> <<"Failed to create file: ">> \o w.msg, fs |-> w.fs]
        ELSE [res |-> <<"Successfully created file ">> \o PathText(file_path),
              fs |-> w.fs]

\* create_new_file returns only a text: the success line, or the failure
\* line of its own except branch
create_new_file(f, file_path, content) ==
    LET dir_path == os_path_dirname(file_path)
        m == IF dir_path # <<>> /\ dir_path # <<".">>
             THEN os_makedirs(f, dir_path)
             ELSE Returned(<<>>, f)
    IN  IF m.raised
        THEN [res |-> <<"Failed to create file: ">> \o m.msg, fs |-> m.fs]
        ELSE LET w == open_write(m.fs, file_path, content)
             IN  IF w.raised
                 THEN [res |-> <<"Failed to create file: ">> \o w.msg, fs |-> w.fs]
                 ELSE [res |-> <<"Successfully created file ">> \o PathText(file_path),
                       fs |-> w.fs]

\* edit_existing without the check of line 113: the text is written back and
\* "OK" returned whether old_str occurred or not
edit_existing_unchecked(f, file_path, old_str, new_str) ==
    LET r == open_read(f, file_path)
    IN  IF r.raised
        THEN Out(<<>>, Exception(<<"Failed to read file: ">> \o r.msg), f)
        ELSE LET w == open_write(f, file_path, str_replace(r.val, old_str, new_str))
             IN  IF w.raised
                 THEN Out(<<>>, Exception(<<"Failed to write file: ">> \o w.msg), f)
                 ELSE Out(<<"OK">>, None, w.fs)

\* lines 102-123 of edit_file: the file is read, rewritten and written back
edit_existing(f, file_path, old_str, new_str) ==
    LET r == open_read(f, file_path)
    IN  IF r.raised
        THEN Out(<<>>, Exception(<<"Failed to read file: ">> \o r.msg), f)
        ELSE LET old_content == r.val
                 new_content == str_replace(old_content, old_str, new_str)
             IN  IF old_content = new_content /\ old_str # <<>>
                 THEN Out(<<>>, Exception(<<"old_str not found in file">>), f)
                 ELSE LET w == open_write(f, file_path, new_content)
                      IN  IF w.raised
                          THEN Out(<<>>, Exception(<<"Failed to write file: ">> \o w.msg), f)
                          ELSE Out(<<"OK">>, None, w.fs)

\* edit_file with `and` for `or` in the validation of line 91
edit_file_lax_validation(f, input) ==
    LET dec == parse_input(input)
    IN  IF dec.status # "ok" THEN Out(<<>>, Exception(dec.msg), f)
        ELSE IF ~dec.val.isDict
        THEN Out(<<>>, Exception(<<"'str' object has no attribute 'get'">>), f)
        ELSE LET file_path == dict_get(dec.val.d, "path", <<>>)
                 old_str == dict_get(dec.val.d, "old_str", <<>>)
                 new_str == dict_get(dec.val.d, "new_str", <<>>)
             IN  IF file_path = <<>> /\ old_str = new_str
                 THEN Out(<<>>, Exception(<<"Invalid input parameters">>), f)
                 ELSE IF ~os_path_exists(f, file_path)
                 THEN IF old_str = <<>>
                      THEN LET c == create_new_file(f, file_path, new_str)
                           IN  Out(c.res, None, c.fs)
                      ELSE Out(<<>>, Exception(<<"File not found: ">> \o PathText(file_path)), f)
                 ELSE edit_existing(f, file_path, old_str, new_str)

edit_file(f, input) ==
    LET dec == parse_input(input)
    IN  IF dec.status # "ok" THEN Out(<<>>, Exception(dec.msg), f)
        ELSE IF ~dec.val.isDict
        THEN Out(<<>>, Exception(<<"'str' object has no attribute 'get'">>), f)
        ELSE LET file_path == dict_get(dec.val.d, "path", <<>>)
                 old_str == dict_get(dec.val.d, "old_str", <<>>)
                 new_str == dict_get(dec.val.d, "new_str", <<>>)
             IN  IF file_path = <<>> \/ old_str = new_str
                 THEN Out(<<>>, Exception(<<"Invalid input parameters">>), f)
                 ELSE IF ~os_path_exists(f, file_path)
                 THEN IF old_str = <<>>
                      THEN LET c == create_new_file(f, file_path, new_str)
                           IN  Out(c.res, None, c.fs)
                      ELSE Out(<<>>, Exception(<<"File not found: ">> \o PathText(file_path)), f)
                 ELSE edit_existing(f, file_path, old_str, new_str)

\* the tool list main() gives the Agent, in order
ToolNames == <<"read_file", "list_files", "edit_file">>

\* ToolDefinition.function of the tool with this name
tool_function(name, f, input) ==
    CASE name = "read_file" -> read_file(f, input)
      [] name = "list_files" -> list_files(f, input)
      [] name = "edit_file" -> edit_file(f, input)

---------------------------------------------------------------------------
(* The Conversation: messages and content blocks *)

NoInput == OtherInput

\* a content block of a model reply.  typed: the block has a `type`
\* attribute; has_text: it has a `text` attribute.
TextBlock ==
    [typed |-> TRUE, type |-> "text", has_text |-> TRUE, id |-> 0, name |-> "",
     input |-> NoInput, content |-> <<>>, is_error |-> FALSE]
\* an old-style block: no `type`, a `text`
LegacyBlock == [TextBlock EXCEPT !.typed = FALSE, !.type = ""]
\* a block with neither `type` nor `text`
RawBlock == [LegacyBlock EXCEPT !.has_text = FALSE]
ToolUseBlock(id, name, input) ==
    [typed |-> TRUE, type |-> "tool_use", has_text |-> FALSE, id |-> id, name |-> name,
     input |-> input, content |-> <<>>, is_error |-> FALSE]
\* the dict execute_tool returns; id is its tool_use_id
ToolResultBlock(id, content, is_error) ==
    [typed |-> TRUE, type |-> "tool_result", has_text |-> FALSE, id |-> id, name |-> "",
     input |-> NoInput, content |-> content, is_error |-> is_error]

UserMessage(text) == [role |-> "user", text |-> text, blocks |-> <<>>]
AssistantMessage(blocks) == [role |-> "assistant", text |-> "", blocks |-> blocks]
ToolResultMessage(blocks) == [role |-> "user", text |-> "", blocks |-> blocks]

---------------------------------------------------------------------------
(* Agent.execute_tool *)

\* the loop that looks the tool up by name in self.tools
FindTool(tool_name) == \E i \in DOMAIN ToolNames : ToolNames[i] = tool_name

\* execute_tool with `if error:` dropped: a handler's error is passed on as
\* an ordinary result
execute_tool_error_unflagged(f, tool_id, tool_name, tool_input) ==
    IF ~FindTool(tool_name)
    THEN [block |-> ToolResultBlock(tool_id, <<"tool not found">>, TRUE), fs |-> f]
    ELSE LET o == tool_function(tool_name, f, tool_input)
         IN  [block |-> ToolResultBlock(tool_id, IF o.err.isNone THEN o.res ELSE o.err.msg,
                                        FALSE),
              fs |-> o.fs]

\* returns the tool_result block and the filesystem the handler left
execute_tool(f, tool_id, tool_name, tool_input) ==
    IF ~FindTool(tool_name)
    THEN [block |-> ToolResultBlock(tool_id, <<"tool not found">>, TRUE), fs |-> f]
    ELSE LET o == tool_function(tool_name, f, tool_input)
         IN  IF ~o.err.isNone
             THEN [block |-> ToolResultBlock(tool_id, o.err.msg, TRUE), fs |-> o.fs]
             ELSE [block |-> ToolResultBlock(tool_id, o.res, FALSE), fs |-> o.fs]

---------------------------------------------------------------------------
(* Inputs of the Agent loop *)

UserTexts == {"hi"}

\* the tool calls the remote model asks for: (name, input)
AgentToolCalls ==
    { <<"read_file", DictInput([k \in {"path"} |-> <<"a">>])>>,
      <<"list_files", StrInput(json_dumps(EmptyDict))>>,
      <<"edit_file", DictInput([k \in Keys |->
            CASE k = "path" -> <<"a">> [] k = "old_str" -> <<"x">> [] k = "new_str" -> <<"y">>])>>,
      <<"rm", DictInput(EmptyDict)>> }

\* the shapes of one content block, before the remote model gives it an id
BlockShapes ==
    {TextBlock, LegacyBlock, RawBlock}
        \cup {ToolUseBlock(0, c[1], c[2]) : c \in AgentToolCalls}

RECURSIVE SeqsUpTo(_, _)
SeqsUpTo(S, n) ==
    IF n = 0 THEN {<<>>}
    ELSE LET R == SeqsUpTo(S, n - 1)
         IN  R \cup {Append(r, x) : r \in {q \in R : Len(q) = n - 1}, x \in S}

\* the remote model numbers its tool_use blocks: ids are never reused
WithIds(shapes, first) ==
    [i \in DOMAIN shapes |->
        IF shapes[i].type = "tool_use" THEN [shapes[i] EXCEPT !.id = first + i - 1]
        ELSE shapes[i]]

RECURSIVE TotalBlocks(_)
TotalBlocks(conv) ==
    IF conv = <<>> THEN 0
    ELSE (IF Head(conv).role = "assistant" THEN Len(Head(conv).blocks) ELSE 0)
             + TotalBlocks(Tail(conv))

EmptyFS == [n \in NodePaths |-> Absent]

\* the working directories the Agent is started in
AgentInitFS == {EmptyFS, [EmptyFS EXCEPT ![<<"a">>] = File(<<"x">>)]}

---------------------------------------------------------------------------
(* Agent.run *)

Init ==
    /\ conversation = <<>>
    /\ pc = "await"
    /\ reply = <<>>
    /\ idx = 1
    /\ tool_results = <<>>
    /\ nextId = 1
    /\ fs \in AgentInitFS
    /\ ev = "start"

\* lines 99-107: get_user_message returned (message, True)
UserInput(message) ==
    /\ pc = "await"
    /\ Len(conversation) < MaxConv
    /\ conversation' = Append(conversation, UserMessage(message))
    /\ pc' = "infer"
    /\ ev' = "user_input"
    /\ UNCHANGED <<reply, idx, tool_results, nextId, fs>>

\* lines 101-103: input() raised EOFError, get_user_message returned ("", False)
EndOfInput ==
    /\ pc = "await"
    /\ pc' = "done"
    /\ ev' = "eof"
    /\ UNCHANGED <<conversation, reply, idx, tool_results, nextId, fs>>

\* line 101: input() raised something other than EOFError; get_user_message
\* does not catch it and it leaves run() (caught in main, line 72)
InputError ==
    /\ pc = "await"
    /\ pc' = "done"
    /\ ev' = "input_error"
    /\ UNCHANGED <<conversation, reply, idx, tool_results, nextId, fs>>

\* ctrl-c: KeyboardInterrupt is not an Exception, so neither try of run()
\* catches it; it leaves run() wherever it is (caught in main, line 70)
Interrupt ==
    /\ pc # "done"
    /\ pc' = "done"
    /\ ev' = "interrupt"
    /\ UNCHANGED <<conversation, reply, idx, tool_results, nextId, fs>>

\* lines 111-114: run_inference returned a response
InferenceOK(shapes) ==
    /\ pc = "infer"
    /\ Len(conversation) < MaxConv
    /\ TotalBlocks(conversation) + Len(shapes) <= MaxBlocks
    /\ LET content == WithIds(shapes, nextId)
       IN  /\ conversation' = Append(conversation, AssistantMessage(content))
           /\ reply' = content
    /\ idx' = 1
    /\ tool_results' = <<>>
    /\ nextId' = nextId + Len(shapes)
    /\ pc' = "blocks"
    /\ ev' = "infer_ok"
    /\ UNCHANGED fs

\* InferenceFail with the except branch leaving waiting_for_user_input as it
\* was: the request is sent again
InferenceFail_Retry ==
    /\ pc = "infer"
    /\ pc' = "infer"
    /\ ev' = "infer_fail"
    /\ UNCHANGED <<conversation, reply, idx, tool_results, nextId, fs>>

\* InferenceFail with the except branch taking back the last message
InferenceFail_DropsMessage ==
    /\ pc = "infer"
    /\ pc' = "await"
    /\ ev' = "infer_fail"
    /\ conversation' = SubSeq(conversation, 1, Len(conversation) - 1)
    /\ UNCHANGED <<reply, idx, tool_results, nextId, fs>>

\* lines 111, 133-135: run_inference raised
InferenceFail ==
    /\ pc = "infer"
    /\ pc' = "await"
    /\ ev' = "infer_fail"
    /\ UNCHANGED <<conversation, reply, idx, tool_results, nextId, fs>>

\* lines 116-119, 123-124: a block with a text is printed
PrintBlock ==
    /\ pc = "blocks"
    /\ idx <= Len(reply)
    /\ reply[idx].has_text
    /\ ~reply[idx].typed \/ reply[idx].type = "text"
    /\ idx' = idx + 1
    /\ ev' = "print"
    /\ UNCHANGED <<conversation, pc, reply, tool_results, nextId, fs>>

\* lines 120-122: a tool_use block is executed and its result collected
ToolUse ==
    /\ pc = "blocks"
    /\ idx <= Len(reply)
    /\ reply[idx].typed
    /\ reply[idx].type = "tool_use"
    /\ LET r == execute_tool(fs, reply[idx].id, reply[idx].name, reply[idx].input)
       IN  /\ tool_results' = Append(tool_results, r.block)
           /\ fs' = r.fs
    /\ idx' = idx + 1
    /\ ev' = "tool"
    /\ UNCHANGED <<conversation, pc, reply, nextId>>

\* BlockError without the except branch: the AttributeError leaves run()
BlockError_Fatal ==
    /\ pc = "blocks"
    /\ idx <= Len(reply)
    /\ ~reply[idx].typed
    /\ ~reply[idx].has_text
    /\ pc' = "done"
    /\ ev' = "block_error"
    /\ UNCHANGED <<conversation, reply, idx, tool_results, nextId, fs>>

\* lines 123-124, 133-135: a block without `type` and without `text`:
\* content.text raises AttributeError, caught by the except of the loop body
BlockError ==
    /\ pc = "blocks"
    /\ idx <= Len(reply)
    /\ ~reply[idx].typed
    /\ ~reply[idx].has_text
    /\ pc' = "await"
    /\ ev' = "block_error"
    /\ UNCHANGED <<conversation, reply, idx, tool_results, nextId, fs>>

\* EndTurn without `waiting_for_user_input = False`: the results are
\* appended and the user is prompted all the same
EndTurn_AlwaysPrompts ==
    /\ pc = "blocks"
    /\ idx > Len(reply)
    /\ pc' = "await"
    /\ IF Len(tool_results) = 0
       THEN UNCHANGED conversation
       ELSE conversation' = Append(conversation, ToolResultMessage(tool_results))
    /\ ev' = "end_turn"
    /\ UNCHANGED <<reply, idx, tool_results, nextId, fs>>

\* lines 126-131: after the last block
EndTurn ==
    /\ pc = "blocks"
    /\ idx > Len(reply)
    /\ IF Len(tool_results) = 0
       THEN /\ pc' = "await"
            /\ UNCHANGED conversation
       ELSE /\ pc' = "infer"
            /\ conversation' = Append(conversation, ToolResultMessage(tool_results))
    /\ ev' = "end_turn"
    /\ UNCHANGED <<reply, idx, tool_results, nextId, fs>>

Next ==
    \/ \E message \in UserTexts : UserInput(message)
    \/ EndOfInput
    \/ Interrupt
    \/ InputError
    \/ \E shapes \in SeqsUpTo(BlockShapes, MaxBlocks) : InferenceOK(shapes)
    \/ InferenceFail
    \/ PrintBlock
    \/ ToolUse
    \/ BlockError
    \/ EndTurn

Spec == Init /\ [][Next]_vars

---------------------------------------------------------------------------
(* The tools called directly, on every filesystem and input of the bounds *)

\* a record with all three fields
EditRecord(path, old_str, new_str) ==
    [k \in Keys |-> CASE k = "path" -> path
                      [] k = "old_str" -> old_str
                      [] k = "new_str" -> new_str]

\* a record cut down to the keys of D
Restrict(r, D) == [k \in D |-> r[k]]

\* the flat objects of string fields a caller sends to edit_file: every
\* complete record, and records with keys missing
EditRecords ==
    {EditRecord(p, o, n) : p \in Paths, o \in Strings, n \in Strings}
        \cup {Restrict(EditRecord(<<"a">>, <<"x">>, <<"y">>), D) : D \in SUBSET Keys}

\* ... to read_file and list_files: a path, or nothing
PathRecords == {[k \in {"path"} |-> p] : p \in Paths} \cup {EmptyDict}

\* the three encodings of one record
Encodings(r) ==
    {DictInput(r), StrInput(json_dumps(r)), BytesInput(utf8_encode(json_dumps(r)))}

\* inputs that are no encoding of a record: text that is not JSON, JSON that
\* is not an object, bytes that are not UTF-8, a value of another type
BadInputs ==
    {StrInput(<<LBrace>>), StrInput(<<StrTok(<<"x">>)>>),
     BytesInput(<<BadByte>>), OtherInput}

EditInputs == UNION {Encodings(r) : r \in EditRecords} \cup BadInputs
PathInputs == UNION {Encodings(r) : r \in PathRecords} \cup BadInputs

ToolInputs(name) == IF name = "edit_file" THEN EditInputs ELSE PathInputs

\* the nodes a filesystem starts with
InitNodes == {Absent, Dir, LockedDir, File(<<"x">>), ReadOnlyFile(<<"x">>)}

ToolInitFS == {f \in [NodePaths -> InitNodes] : WellFormed(f)}

\* the model keeps file contents of at most MaxContent characters
WithinBounds(f) == \A n \in DOMAIN f : Len(f[n].content) <= MaxContent

ToolInit ==
    /\ conversation = <<>>
    /\ pc = "await"
    /\ reply = <<>>
    /\ idx = 1
    /\ tool_results = <<>>
    /\ nextId = 1
    /\ fs \in ToolInitFS
    /\ ev = "start"

\* what a call did, for the history variable
Outcome(name, o) == IF o.err.isNone THEN name \o " ok" ELSE name \o " error"

\* one call of read_file
ReadFileCall ==
    \E input \in PathInputs :
        LET o == read_file(fs, input)
        IN  /\ WithinBounds(o.fs)
            /\ fs' = o.fs
            /\ ev' = Outcome("read_file", o)
            /\ UNCHANGED <<conversation, pc, reply, idx, tool_results, nextId>>

\* one call of list_files
ListFilesCall ==
    \E input \in PathInputs :
        LET o == list_files(fs, input)
        IN  /\ WithinBounds(o.fs)
            /\ fs' = o.fs
            /\ ev' = Outcome("list_files", o)
            /\ UNCHANGED <<conversation, pc, reply, idx, tool_results, nextId>>

\* one call of edit_file
EditFileCall ==
    \E input \in EditInputs :
        LET o == edit_file(fs, input)
        IN  /\ WithinBounds(o.fs)
            /\ fs' = o.fs
            /\ ev' = Outcome("edit_file", o)
            /\ UNCHANGED <<conversation, pc, reply, idx, tool_results, nextId>>

ToolNext == ReadFileCall \/ ListFilesCall \/ EditFileCall

ToolSpec == ToolInit /\ [][ToolNext]_vars

---------------------------------------------------------------------------
(* list_files called on directories of several children *)

\* the paths list_files is called with: those of Paths, and "a.d"
ListPaths == Paths \cup {<<"a.d">>}

\* the nodes below the working directory: a, a.d, d and d/a
ListNodes == {Resolve(p) : p \in ListPaths} \ {<<>>}

ListInitFS == {f \in [ListNodes -> InitNodes] : WellFormed(f)}

ListInputs ==
    UNION {Encodings(r) : r \in {[k \in {"path"} |-> p] : p \in ListPaths} \cup {EmptyDict}}

ListInit ==
    /\ conversation = <<>>
    /\ pc = "await"
    /\ reply = <<>>
    /\ idx = 1
    /\ tool_results = <<>>
    /\ nextId = 1
    /\ fs \in ListInitFS
    /\ ev = "start"

\* one call of list_files
ListDirectory ==
    \E input \in ListInputs :
        LET o == list_files(fs, input)
        IN  /\ fs' = o.fs
            /\ ev' = Outcome("list_files", o)
            /\ UNCHANGED <<conversation, pc, reply, idx, tool_results, nextId>>

\* one call of edit_file that creates a file (and its parent directories),
\* or writes to the file that is there: the directory's children change
CreateFile ==
    \E p \in ListPaths :
        LET o == edit_file(fs, DictInput(EditRecord(p, <<>>, <<"x">>)))
        IN  /\ WithinBounds(o.fs)
            /\ fs' = o.fs
            /\ ev' = Outcome("edit_file", o)
            /\ UNCHANGED <<conversation, pc, reply, idx, tool_results, nextId>>

ListNext == ListDirectory \/ CreateFile

ListSpec == ListInit /\ [][ListNext]_vars

---------------------------------------------------------------------------
(* Claims about the Agent loop (checked under Spec) *)

IsToolUse(b) == b.typed /\ b.type = "tool_use"

\* the tool_use blocks of a reply, in order
ToolUses(blocks) == SelectSeq(blocks, IsToolUse)

\* a user-role message that holds tool_result blocks
IsToolResultMessage(m) ==
    /\ m.role = "user"
    /\ m.blocks # <<>>
    /\ \A i \in DOMAIN m.blocks : m.blocks[i].type = "tool_result"

\* the message answers the tool_use blocks of the reply one for one, in order
Answers(m, blocks) ==
    /\ IsToolResultMessage(m)
    /\ Len(m.blocks) = Len(ToolUses(blocks))
    /\ \A i \in DOMAIN m.blocks : m.blocks[i].id = ToolUses(blocks)[i].id

\* C1: every assistant message with N >= 1 tool_use blocks that has a message
\* after it is followed by a user-role message of exactly N tool_result
\* blocks, the i-th answering the i-th tool_use id; and every message holding
\* tool_result blocks answers the assistant message right before it.
C1_ToolResultsFollowToolUse ==
    /\ \A k \in 1..(Len(conversation) - 1) :
           (conversation[k].role = "assistant" /\ ToolUses(conversation[k].blocks) # <<>>)
               => Answers(conversation[k + 1], conversation[k].blocks)
    /\ \A k \in DOMAIN conversation :
           (\E i \in DOMAIN conversation[k].blocks :
                conversation[k].blocks[i].type = "tool_result")
               => /\ k > 1
                  /\ conversation[k - 1].role = "assistant"
                  /\ Answers(conversation[k], conversation[k - 1].blocks)

C3_AdapterFailureReturnsToUser ==
    [][ (pc = "infer" /\ ev' = "infer_fail")
            => /\ conversation' = conversation
               /\ fs' = fs
               /\ tool_results' = tool_results
               /\ pc' = "await"
      ]_vars

\* C3 witness: an inference call that followed a tool_result message failed
C3_Witness ==
    /\ ev = "infer_fail"
    /\ pc = "await"
    /\ Len(conversation) >= 3
    /\ IsToolResultMessage(conversation[Len(conversation)])

C5_ConversationAppendOnly ==
    [][IsPrefix(conversation, conversation')]_vars

\* C5 witness: the Conversation holds user text, a reply and tool results
C5_Witness ==
    /\ Len(conversation) >= 4
    /\ \E k \in DOMAIN conversation : IsToolResultMessage(conversation[k])
    /\ ev = "infer_fail"

C14_RolesAlternate ==
    \A k \in DOMAIN conversation :
        conversation[k].role = (IF k % 2 = 1 THEN "user" ELSE "assistant")

\* the message holds a tool_result for every tool_use block of the reply
AnswersEach(m, blocks) ==
    /\ m.role = "user"
    /\ \A i \in DOMAIN blocks :
           IsToolUse(blocks[i])
               => \E j \in DOMAIN m.blocks :
                      m.blocks[j].type = "tool_result" /\ m.blocks[j].id = blocks[i].id

\* C15: whenever an inference request is about to be sent, every assistant
\* message of the Conversation that holds tool_use blocks has right after it a
\* user-role message with a tool_result for each of their ids.
C15_NoUnansweredToolUse ==
    pc = "infer"
        => \A k \in DOMAIN conversation :
               (conversation[k].role = "assistant" /\ ToolUses(conversation[k].blocks) # <<>>)
                   => /\ k < Len(conversation)
                      /\ AnswersEach(conversation[k + 1], conversation[k].blocks)

---------------------------------------------------------------------------
(* Claims about the tools (checked under ToolSpec) *)

Handlers == {"read_file", "list_files", "edit_file"}

Records(name) == IF name = "edit_file" THEN EditRecords ELSE PathRecords

\* the path names a regular file holding exactly this content
HoldsFile(f, p, content) ==
    /\ os_path_exists(f, p)
    /\ IsFileKind(NodeAt(f, Resolve(p)).kind)
    /\ NodeAt(f, Resolve(p)).content = content

\* what the tool is asked to do was done: read_file returned the content of
\* the file, list_files listed a directory, edit_file left a regular file at
\* the path
Done(name, f, r, o) ==
    CASE name = "read_file" -> "path" \in DOMAIN r /\ HoldsFile(f, r["path"], o.res)
      [] name = "list_files" -> os_path_isdir(f, dict_get(r, "path", <<".">>))
      [] name = "edit_file" ->
            /\ os_path_exists(o.fs, dict_get(r, "path", <<>>))
            /\ IsFileKind(NodeAt(o.fs, Resolve(dict_get(r, "path", <<>>))).kind)

\* C7: whatever the input and the filesystem, a handler that returns an error
\* returns it with an empty result text, and a handler that returns no error
\* has done what it was asked to do: no failure comes back as a non-error.
C7_FailuresReturnErrors ==
    /\ \A name \in Handlers : \A input \in ToolInputs(name) :
           LET o == tool_function(name, fs, input)
           IN  ~o.err.isNone => o.res = <<>>
    /\ \A name \in Handlers : \A r \in Records(name) :
           LET o == tool_function(name, fs, DictInput(r))
           IN  o.err.isNone => Done(name, fs, r, o)

\* C8: for every handler and record, the decoded object, its JSON text and
\* the UTF-8 bytes of that text give the same result text, error and
\* filesystem; an input of another type gives the error "Unknown input
\* format", an empty result text and an unchanged filesystem.
C8_EncodingsAgree ==
    \A name \in Handlers :
        /\ \A r \in Records(name) :
               LET o == tool_function(name, fs, DictInput(r))
               IN  /\ tool_function(name, fs, StrInput(json_dumps(r))) = o
                   /\ tool_function(name, fs, BytesInput(utf8_encode(json_dumps(r)))) = o
        /\ LET o == tool_function(name, fs, OtherInput)
           IN  /\ o.res = <<>>
               /\ ~o.err.isNone
               /\ o.err.msg[1] = "Unknown input format: "
               /\ o.fs = fs

\* C8 witness: edit_file has just changed the filesystem, and in this state a
\* record given as bytes makes it change the filesystem again
C8_Witness ==
    /\ ev = "edit_file ok"
    /\ \E r \in EditRecords :
           LET o == edit_file(fs, BytesInput(utf8_encode(json_dumps(r))))
           IN  o.err.isNone /\ o.fs # fs

\* C9: edit_file given an empty path, or old_str equal to new_str, returns
\* the error "Invalid input parameters" with an empty result text and leaves
\* the filesystem as it was, whether the path exists or not and in every
\* encoding of the input.
C9_NoOpEditRejected ==
    \A r \in EditRecords :
        (dict_get(r, "path", <<>>) = <<>>
             \/ dict_get(r, "old_str", <<>>) = dict_get(r, "new_str", <<>>))
            => \A input \in Encodings(r) :
                   LET o == edit_file(fs, input)
                   IN  /\ o.err = Exception(<<"Invalid input parameters">>)
                       /\ o.res = <<>>
                       /\ o.fs = fs

\* C9 witness: an edit_file call has just failed, and in this state both an
\* existing file and a missing path are there to be named with equal strings
C9_Witness ==
    /\ ev = "edit_file error"
    /\ os_path_exists(fs, <<"a">>)
    /\ ~os_path_exists(fs, <<"d", "a">>)
    /\ edit_file(fs, DictInput(EditRecord(<<"d", "a">>, <<>>, <<>>))).err
           = Exception(<<"Invalid input parameters">>)

\* edit_file(P, "", s) and then edit_file(P, s, t): the first call returns no
\* error and leaves P holding s, the second returns "OK" and no error and
\* leaves P holding t
CreateThenEdit(f, P, s, t) ==
    LET o1 == edit_file(f, DictInput(EditRecord(P, <<>>, s)))
        o2 == edit_file(o1.fs, DictInput(EditRecord(P, s, t)))
    IN  /\ o1.err.isNone
        /\ HoldsFile(o1.fs, P, s)
        /\ o2.err.isNone
        /\ o2.res = <<"OK">>
        /\ HoldsFile(o2.fs, P, t)

\* C10 as stated: for any nonexistent path P and distinct non-empty s and t,
\* edit_file(P, "", s) creates P holding s, and edit_file(P, s, t) then
\* returns "OK" and leaves P holding t.
C10_CreateThenEditAnyPath ==
    \A P \in Paths : \A s \in Strings : \A t \in Strings :
        (~os_path_exists(fs, P) /\ s # <<>> /\ t # <<>> /\ s # t)
            => CreateThenEdit(fs, P, s, t)

\* no ancestor of the path is a regular file
Creatable(f, P) ==
    /\ P # <<>>
    /\ \A i \in 1..(Len(P) - 1) :
           ~IsFileKind(NodeAt(f, Resolve(SubSeq(P, 1, i))).kind)

\* C10 amended: the same, for a nonexistent path P that is not empty and has
\* no regular file among its ancestors.
C10_CreateThenEdit ==
    \A P \in Paths : \A s \in Strings : \A t \in Strings :
        (~os_path_exists(fs, P) /\ Creatable(fs, P) /\ s # <<>> /\ t # <<>> /\ s # t)
            => CreateThenEdit(fs, P, s, t)

\* C10 witness: edit_file has just succeeded and left d/a holding "y", and a
\* is a missing path that can be created
C10_Witness ==
    /\ ev = "edit_file ok"
    /\ HoldsFile(fs, <<"d", "a">>, <<"y">>)
    /\ ~os_path_exists(fs, <<"a">>)
    /\ Creatable(fs, <<"a">>)

\* the text holds sub as a substring
Contains(s, sub) ==
    \E i \in 1..(Len(s) - Len(sub) + 1) : SubSeq(s, i, i + Len(sub) - 1) = sub

\* the path names an existing regular file whose content does not hold old_str
FileWithout(f, p, old_str) ==
    /\ os_path_exists(f, p)
    /\ IsFileKind(NodeAt(f, Resolve(p)).kind)
    /\ ~Contains(NodeAt(f, Resolve(p)).content, old_str)

\* edit_file fails with this error, an empty result text and no change
FailsUnchanged(f, input, err) ==
    LET o == edit_file(f, input)
    IN  o.err = err /\ o.res = <<>> /\ o.fs = f

---------------------------------------------------------------------------
(* Claims about list_files on directories of several children (checked      *)
(* under ListSpec)                                                          *)

\* the names of a files list printed as text, split at the separators
RECURSIVE SplitNames(_, _)
SplitNames(toks, cur) ==
    IF toks = <<>> THEN (IF cur = <<>> THEN <<>> ELSE <<cur>>)
    ELSE IF Head(toks) = ", " THEN <<cur>> \o SplitNames(Tail(toks), <<>>)
         ELSE SplitNames(Tail(toks), Append(cur, Head(toks)))

\* the files list and the count of the object a result text encodes
ListedFiles(text) ==
    LET k == CHOOSE i \in DOMAIN text : text[i] = "], directory: "
    IN  SplitNames(SubSeq(text, 2, k - 1), <<>>)

ListedCount(text) == text[Len(text) - 1]

\* the immediate children of the directory at a path
ChildrenOf(f, p) == {n \in DOMAIN f : Parent(n) = Resolve(p) /\ f[n].kind # "absent"}

\* a child's name, with "/" after it iff the child is a directory
ExpectedEntry(f, n) ==
    NameChars(n[Len(n)]) \o (IF IsDirKind(f[n].kind) THEN <<"/">> ELSE <<>>)

\* the outcome is a listing of the directory: no error, no change, one entry
\* per child, in strictly ascending order, and count the number of entries
ListsChildren(f, p, o) ==
    /\ o.err.isNone
    /\ o.fs = f
    /\ LET files == ListedFiles(o.res)
       IN  /\ Len(files) = Cardinality(ChildrenOf(f, p))
           /\ {files[i] : i \in DOMAIN files} = {ExpectedEntry(f, n) : n \in ChildrenOf(f, p)}
           /\ \A i \in 1..(Len(files) - 1) : LexLess(files[i], files[i + 1])
           /\ ListedCount(o.res) = ToString(Len(files))

\* the outcome is this error, with an empty result text and no change
FailsWith(f, o, msg) == o.err = Exception(msg) /\ o.res = <<>> /\ o.fs = f

\* the errors of list_files on a path that is no directory
ListErrors(f, p, o) ==
    /\ ~os_path_exists(f, p)
         => FailsWith(f, o, <<"Directory not found: ">> \o PathText(p))
    /\ (os_path_exists(f, p) /\ ~os_path_isdir(f, p))
         => FailsWith(f, o, <<"Path is not a directory: ">> \o PathText(p))

\* the path a record names for list_files
ListedPath(r) == dict_get(r, "path", <<".">>)

\* C12 as stated: list_files on every existing directory returns, with no
\* error, one entry per immediate child (the name, with "/" iff a directory),
\* sorted ascending, and count the length of the list; on a nonexistent path
\* it fails with "Directory not found", on a non-directory with "Path is not a
\* directory".
C12_ListsEveryDirectory ==
    \A r \in {[k \in {"path"} |-> p] : p \in ListPaths} \cup {EmptyDict} :
        \A input \in Encodings(r) :
            LET o == list_files(fs, input)
            IN  /\ os_path_isdir(fs, ListedPath(r)) => ListsChildren(fs, ListedPath(r), o)
                /\ ListErrors(fs, ListedPath(r), o)

\* the process may enumerate the directory at the path
MayEnumerate(f, p) == os_path_isdir(f, p) /\ NodeAt(f, Resolve(p)).kind # "lockeddir"

\* C12 amended: the same for every existing directory the process may
\* enumerate; on one it may not, list_files fails with "Permission denied
\* accessing directory".
C12_ListsDirectory ==
    \A r \in {[k \in {"path"} |-> p] : p \in ListPaths} \cup {EmptyDict} :
        \A input \in Encodings(r) :
            LET o == list_files(fs, input)
                p == ListedPath(r)
            IN  /\ MayEnumerate(fs, p) => ListsChildren(fs, p, o)
                /\ (os_path_isdir(fs, p) /\ ~MayEnumerate(fs, p))
                     => FailsWith(fs, o, <<"Permission denied accessing directory: ">>
                                             \o PathText(p))
                /\ ListErrors(fs, p, o)

\* C12 witness: list_files has just returned a listing, and the working
\* directory lists as a.d, a/, d: the directory a comes after the file a.d,
\* which its bare name would come before
C12_Witness ==
    /\ ev = "list_files ok"
    /\ ListedFiles(list_files(fs, DictInput(EmptyDict)).res)
           = << <<"a", ".", "d">>, <<"a", "/">>, <<"d">> >>
    /\ ListedCount(list_files(fs, DictInput(EmptyDict)).res) = "3"

=============================================================================
